---- MODULE Spec2Model ----
(***************************************************************************)
(* Model of blockvault_crypto (src/blockvault_crypto/src/main.rs): the     *)
(* BVENC001 envelope written by encrypt_file and consumed by decrypt_file. *)
(*                                                                         *)
(* The file system is a map from paths to byte sequences.  encrypt_file    *)
(* and decrypt_file are single-threaded and run to completion, so each is  *)
(* one action; where an I/O call of the handler can fail the action        *)
(* chooses the outcome.  PBKDF2-HMAC-SHA256 and AES-256-GCM come from      *)
(* external crates; they are modelled by small byte-level functions that   *)
(* keep their shape (key = f(passphrase, salt); ciphertext = plaintext XOR *)
(* keystream(key, nonce); 16-byte tag over key, nonce, aad, ciphertext,    *)
(* verified before the keystream is removed) and that are collision-free   *)
(* on the enumerated inputs, which is the security assumption on the real  *)
(* primitives.                                                             *)
(***************************************************************************)
EXTENDS Integers, Sequences, FiniteSets, TLC

VARIABLES fs, prov, last

vars == <<fs, prov, last>>

\* ------------------------------------------------------------ constants
MAGIC == <<66, 86, 69, 78, 67, 48, 48, 49>>

SALT_LEN == 16

NONCE_LEN == 12

PBKDF2_ITERS == 120000

KEY_LEN == 32

TAG_LEN == 16

\* ------------------------------------------------------------ bounds
MaxPlainLen == 1

PlainAlphabet == {84, 226}

SaltSeeds == {17, 202}

NonceSeeds == {5, 99}

\* ------------------------------------------------------------ byte helpers
RECURSIVE XorBits(_, _, _)
XorBits(a, b, n) ==
  IF n = 0 THEN 0
  ELSE (((a % 2) + (b % 2)) % 2) + 2 * XorBits(a \div 2, b \div 2, n - 1)

Xor(a, b) == XorBits(a, b, 8)

RECURSIVE Pow2(_)
Pow2(n) == IF n = 0 THEN 1 ELSE 2 * Pow2(n - 1)

RECURSIVE SumBytes(_)
SumBytes(s) == IF s = <<>> THEN 0 ELSE Head(s) + SumBytes(Tail(s))

Prefix(s, k) == SubSeq(s, 1, k)

Zeros(n) == [i \in 1..n |-> 0]

FlipBit(s, pos, bit) == [s EXCEPT ![pos] = Xor(s[pos], Pow2(bit))]

\* ------------------------------------------------------------ inputs
Paths == {"plain", "enc", "enc2", "dec"}

Plaintexts == UNION {[1..n -> PlainAlphabet] : n \in 0..MaxPlainLen}

Passphrases == {<<112>>, <<112, 119>>}

None == [present |-> FALSE, val |-> <<>>]

Some(s) == [present |-> TRUE, val |-> s]

Aads == {None, Some(<<>>), Some(<<109>>)}

Salts == {[i \in 1..SALT_LEN |-> (s + i) % 256] : s \in SaltSeeds}

Nonces == {[i \in 1..NONCE_LEN |-> (s + 3 * i) % 256] : s \in NonceSeeds}

\* ------------------------------------------------------------ errors
Ok == "ok"

ErrTooShort == "file too short or corrupt"

ErrMagic == "invalid magic header"

ErrAead == "decryption failed: aead::Error"

ErrIo == "io error"

\* ------------------------------------------------------------ primitives
RECURSIVE Digest(_, _)
Digest(bytes, acc) ==
  IF bytes = <<>> THEN acc
  ELSE Digest(Tail(bytes), (acc * 31 + Head(bytes) + 1) % 256)

derive_key_ignores_passphrase(passphrase, salt) ==
  LET prf == Digest(<<>>, PBKDF2_ITERS % 256)
  IN  [i \in 1..KEY_LEN |-> (prf + salt[((i - 1) % SALT_LEN) + 1] + i) % 256]

derive_key(passphrase, salt) ==
  LET prf == Digest(passphrase, PBKDF2_ITERS % 256)
  IN  [i \in 1..KEY_LEN |-> (prf + salt[((i - 1) % SALT_LEN) + 1] + i) % 256]

Keystream(key, nonce, i) ==
  (key[((i - 1) % KEY_LEN) + 1] + nonce[((i - 1) % NONCE_LEN) + 1] + i) % 256

Tag(key, nonce, aad, ct) ==
  LET ghash == Len(aad) + 2 * SumBytes(aad) + 7 * Len(ct) + SumBytes(ct)
  IN  [j \in 1..TAG_LEN |->
         (key[j] + nonce[((j - 1) % NONCE_LEN) + 1] + ghash + j) % 256]

AeadSeal(key, nonce, aad, msg) ==
  LET ct == [i \in 1..Len(msg) |-> Xor(msg[i], Keystream(key, nonce, i))]
  IN  ct \o Tag(key, nonce, aad, ct)

AeadOpenUnverified(key, nonce, aad, msg) ==
  IF Len(msg) < TAG_LEN THEN [ok |-> FALSE, plaintext |-> <<>>]
  ELSE LET n == Len(msg) - TAG_LEN
       IN  [ok |-> TRUE,
            plaintext |-> [i \in 1..n |-> Xor(msg[i], Keystream(key, nonce, i))]]

AeadOpen(key, nonce, aad, msg) ==
  IF Len(msg) < TAG_LEN THEN [ok |-> FALSE, plaintext |-> <<>>]
  ELSE LET n  == Len(msg) - TAG_LEN
           ct == SubSeq(msg, 1, n)
       IN  IF SubSeq(msg, n + 1, Len(msg)) # Tag(key, nonce, aad, ct)
           THEN [ok |-> FALSE, plaintext |-> <<>>]
           ELSE [ok |-> TRUE,
                 plaintext |-> [i \in 1..n |-> Xor(ct[i], Keystream(key, nonce, i))]]

\* ------------------------------------------------------------ envelope codec
AadBytesIgnored(aad) == <<>>

AadBytes(aad) == IF aad.present THEN aad.val ELSE <<>>

HeaderLen == Len(MAGIC) + SALT_LEN + NONCE_LEN

AssembleNonceFirst(salt, nonce_bytes, ciphertext) ==
  MAGIC \o nonce_bytes \o salt \o ciphertext

AssembleZeroNonce(salt, nonce_bytes, ciphertext) ==
  MAGIC \o salt \o Zeros(NONCE_LEN) \o ciphertext

Assemble(salt, nonce_bytes, ciphertext) ==
  MAGIC \o salt \o nonce_bytes \o ciphertext

FormatErrorInclusive(buffer) ==
  IF Len(buffer) <= Len(MAGIC) + SALT_LEN + NONCE_LEN THEN ErrTooShort
  ELSE IF SubSeq(buffer, 1, Len(MAGIC)) # MAGIC THEN ErrMagic
  ELSE Ok

FormatErrorWithTag(buffer) ==
  IF Len(buffer) < Len(MAGIC) + SALT_LEN + NONCE_LEN + TAG_LEN THEN ErrTooShort
  ELSE IF SubSeq(buffer, 1, Len(MAGIC)) # MAGIC THEN ErrMagic
  ELSE Ok

FormatError(buffer) ==
  IF Len(buffer) < Len(MAGIC) + SALT_LEN + NONCE_LEN THEN ErrTooShort
  ELSE IF SubSeq(buffer, 1, Len(MAGIC)) # MAGIC THEN ErrMagic
  ELSE Ok

SaltOfOffByOne(buffer) == SubSeq(buffer, Len(MAGIC), Len(MAGIC) + SALT_LEN - 1)

SaltOf(buffer) == SubSeq(buffer, Len(MAGIC) + 1, Len(MAGIC) + SALT_LEN)

NonceOf(buffer) ==
  SubSeq(buffer, Len(MAGIC) + SALT_LEN + 1, Len(MAGIC) + SALT_LEN + NONCE_LEN)

CiphertextOf(buffer) ==
  SubSeq(buffer, Len(MAGIC) + SALT_LEN + NONCE_LEN + 1, Len(buffer))

\* decrypt_file from the bytes read (line 85) to the AEAD open (line 101)
DecryptBytes(buffer, passphrase, aad) ==
  LET fe == FormatError(buffer)
  IN  IF fe # Ok
      THEN [err |-> fe, plaintext |-> <<>>, kdf |-> 0, aead |-> 0,
            salt |-> <<>>, nonce |-> <<>>, ct |-> <<>>]
      ELSE LET salt        == SaltOf(buffer)
               nonce_bytes == NonceOf(buffer)
               ciphertext  == CiphertextOf(buffer)
               key         == derive_key(passphrase, salt)
               opened      == AeadOpen(key, nonce_bytes, AadBytes(aad), ciphertext)
           IN  [err |-> IF opened.ok THEN Ok ELSE ErrAead,
                plaintext |-> opened.plaintext, kdf |-> 1, aead |-> 1,
                salt |-> salt, nonce |-> nonce_bytes, ct |-> ciphertext]

\* ------------------------------------------------------------ state
File(bytes) == [exists |-> TRUE, bytes |-> bytes]

NoFile == [exists |-> FALSE, bytes |-> <<>>]

\* provenance of a file's content (history, not program state): which
\* encrypt_file call produced it and whether a bit was flipped afterwards
NoProv ==
  [kind |-> "none", p |-> <<>>, k |-> <<>>, a |-> None, salt |-> <<>>,
   nonce |-> <<>>, sealed |-> <<>>, pos |-> 0, bit |-> 0]

\* the call that has just returned: its arguments, its result and what it did
NoCall ==
  [op |-> "none", input |-> "plain", output |-> "plain", pass |-> <<>>,
   aad |-> None, err |-> Ok, read |-> FALSE, buffer |-> <<>>, kdf |-> 0,
   aead |-> 0, opened |-> FALSE, salt |-> <<>>, nonce |-> <<>>,
   sealed |-> <<>>, full |-> <<>>, wrote |-> "none", outKept |-> TRUE,
   inProv |-> NoProv, unwiped |-> {}]

\* files an outside party may hand to decrypt_file
Crafted ==
  { <<>>,
    MAGIC,
    MAGIC \o Zeros(SALT_LEN + NONCE_LEN - 1),
    Zeros(HeaderLen - 1),
    Zeros(HeaderLen),
    [MAGIC EXCEPT ![8] = 50] \o Zeros(SALT_LEN + NONCE_LEN),
    MAGIC \o Zeros(SALT_LEN + NONCE_LEN),
    MAGIC \o Zeros(SALT_LEN + NONCE_LEN + TAG_LEN - 1),
    MAGIC \o Zeros(SALT_LEN + NONCE_LEN + TAG_LEN) }

\* lengths at which a failing write_all may stop
ShortWrites(out) ==
  {k \in 0..(Len(out) - 1) : k \in {0, Len(out) \div 2, Len(out) - 1}}

\* which I/O call of a handler fails, if any
IoOutcomes == {"none", "read", "create", "write"}

Init ==
  /\ \E data \in Plaintexts :
       fs = [p \in Paths |-> IF p = "plain" THEN File(data) ELSE NoFile]
  /\ prov = [p \in Paths |-> NoProv]
  /\ last = NoCall

\* ------------------------------------------------------------ encrypt_file
\* rng_salt and rng_nonce are the bytes thread_rng() returns at lines 55
\* and 59; io is the I/O call that fails in this run
EncryptFile(input, output, passphrase, aad, rng_salt, rng_nonce, io) ==
  LET data        == fs[input].bytes
      salt        == rng_salt
      key         == derive_key(passphrase, salt)
      nonce_bytes == rng_nonce
      ciphertext  == AeadSeal(key, nonce_bytes, AadBytes(aad), data)
      out         == Assemble(salt, nonce_bytes, ciphertext)
      call        == [NoCall EXCEPT !.op = "encrypt", !.input = input,
                        !.output = output, !.pass = passphrase, !.aad = aad,
                        !.inProv = prov[input]]
      sealedCall  == [call EXCEPT !.read = TRUE, !.buffer = data, !.kdf = 1,
                        !.aead = 1, !.opened = TRUE, !.salt = salt,
                        !.nonce = nonce_bytes, !.sealed = ciphertext,
                        !.full = out, !.unwiped = {"key"}]
  IN  IF ~fs[input].exists \/ io = "read"
      THEN \* fs::read fails (line 53)
           /\ last' = [call EXCEPT !.err = ErrIo]
           /\ UNCHANGED <<fs, prov>>
      ELSE IF io = "create"
      THEN \* File::create fails (line 75); data was zeroized at line 67
           /\ last' = [sealedCall EXCEPT !.err = ErrIo]
           /\ UNCHANGED <<fs, prov>>
      ELSE IF io = "write"
      THEN \* File::create truncated the file, write_all fails (line 76)
           \E k \in ShortWrites(out) :
             /\ fs' = [fs EXCEPT ![output] = File(Prefix(out, k))]
             /\ prov' = [prov EXCEPT ![output] = NoProv]
             /\ last' = [sealedCall EXCEPT !.err = ErrIo, !.wrote = "partial",
                           !.outKept = (fs[output] = File(Prefix(out, k)))]
      ELSE \* File::flush (line 77) is a no-op on a std File and returns Ok
           /\ fs' = [fs EXCEPT ![output] = File(out)]
           /\ prov' = [prov EXCEPT ![output] =
                         [kind |-> "envelope", p |-> data, k |-> passphrase,
                          a |-> aad, salt |-> salt, nonce |-> nonce_bytes,
                          sealed |-> ciphertext, pos |-> 0, bit |-> 0]]
           /\ last' = [sealedCall EXCEPT !.err = Ok, !.wrote = "full",
                         !.outKept = (fs[output] = File(out))]

\* ------------------------------------------------------------ decrypt_file
DecryptFile(input, output, passphrase, aad, io) ==
  LET buffer == fs[input].bytes
      d      == DecryptBytes(buffer, passphrase, aad)
      call   == [NoCall EXCEPT !.op = "decrypt", !.input = input,
                   !.output = output, !.pass = passphrase, !.aad = aad,
                   !.inProv = prov[input]]
      parsed == [call EXCEPT !.read = TRUE, !.buffer = buffer,
                   !.kdf = d.kdf, !.aead = d.aead, !.salt = d.salt,
                   !.nonce = d.nonce, !.sealed = d.ct,
                   !.unwiped = IF d.kdf = 1 THEN {"key"} ELSE {}]
      opened == [parsed EXCEPT !.opened = TRUE, !.full = d.plaintext,
                   !.unwiped = {"key", "plaintext"}]
  IN  IF ~fs[input].exists \/ io = "read"
      THEN \* File::open or read_to_end fails (lines 82-84)
           /\ last' = [call EXCEPT !.err = ErrIo]
           /\ UNCHANGED <<fs, prov>>
      ELSE IF d.err # Ok
      THEN \* the return at line 86, at line 90 or through the ? of line 101
           /\ io = "none"
           /\ last' = [parsed EXCEPT !.err = d.err]
           /\ UNCHANGED <<fs, prov>>
      ELSE IF io = "create"
      THEN \* fs::write cannot create the file (line 103)
           /\ last' = [opened EXCEPT !.err = ErrIo]
           /\ UNCHANGED <<fs, prov>>
      ELSE IF io = "write"
      THEN \* fs::write truncated the file and its write_all fails
           \E k \in ShortWrites(d.plaintext) :
             /\ fs' = [fs EXCEPT ![output] = File(Prefix(d.plaintext, k))]
             /\ prov' = [prov EXCEPT ![output] = NoProv]
             /\ last' = [opened EXCEPT !.err = ErrIo, !.wrote = "partial",
                           !.outKept = (fs[output] = File(Prefix(d.plaintext, k)))]
      ELSE /\ fs' = [fs EXCEPT ![output] = File(d.plaintext)]
           /\ prov' = [prov EXCEPT ![output] = NoProv]
           /\ last' = [opened EXCEPT !.err = Ok, !.wrote = "full",
                         !.outKept = (fs[output] = File(d.plaintext))]

\* ------------------------------------------------------------ environment
\* a single bit of the ciphertext-or-tag region of an envelope is flipped
Tamper(path) ==
  /\ prov[path].kind = "envelope"
  /\ \E pos \in (HeaderLen + 1)..Len(fs[path].bytes), bit \in 0..7 :
       /\ fs' = [fs EXCEPT ![path] = File(FlipBit(fs[path].bytes, pos, bit))]
       /\ prov' = [prov EXCEPT ![path] =
                     [@ EXCEPT !.kind = "tampered", !.pos = pos, !.bit = bit]]
  /\ last' = NoCall

\* a file that encrypt_file did not write is placed at the path
PutFile(path) ==
  /\ \E bytes \in Crafted : fs' = [fs EXCEPT ![path] = File(bytes)]
  /\ prov' = [prov EXCEPT ![path] = NoProv]
  /\ last' = NoCall

\* ------------------------------------------------------------ specifications
\* the codec with working I/O: envelopes, foreign files, every key and aad
Encrypt ==
  \E k \in Passphrases, a \in Aads, s \in Salts, n \in Nonces :
    EncryptFile("plain", "enc", k, a, s, n, "none")

Decrypt ==
  \E i \in {"plain", "enc", "dec"}, k \in Passphrases, a \in Aads :
    DecryptFile(i, "dec", k, a, "none")

Next == Encrypt \/ Decrypt \/ PutFile("enc")

Spec == Init /\ [][Next]_vars

\* an envelope with one flipped bit
FixedSalt == CHOOSE s \in Salts : TRUE

FixedNonce == CHOOSE n \in Nonces : TRUE

EncryptFixed ==
  \E k \in Passphrases, a \in Aads :
    EncryptFile("plain", "enc", k, a, FixedSalt, FixedNonce, "none")

DecryptEnc ==
  \E k \in Passphrases, a \in Aads :
    DecryptFile("enc", "dec", k, a, "none")

NextTamper == EncryptFixed \/ Tamper("enc") \/ DecryptEnc

SpecTamper == Init /\ [][NextTamper]_vars

\* two envelopes of the same input side by side
TwiceAad == Some(<<109>>)

EncryptEither ==
  \E o \in {"enc", "enc2"}, k \in Passphrases, s \in Salts, n \in Nonces :
    EncryptFile("plain", o, k, TwiceAad, s, n, "none")

DecryptEither ==
  \E i \in {"enc", "enc2"}, k \in Passphrases :
    DecryptFile(i, "dec", k, TwiceAad, "none")

NextTwice == EncryptEither \/ DecryptEither

SpecTwice == Init /\ [][NextTwice]_vars

\* failing I/O calls
EncryptIo ==
  \E k \in Passphrases, a \in Aads, io \in IoOutcomes :
    EncryptFile("plain", "enc", k, a, FixedSalt, FixedNonce, io)

DecryptIo ==
  \E k \in Passphrases, a \in Aads, io \in IoOutcomes :
    DecryptFile("enc", "dec", k, a, io)

NextIo == EncryptIo \/ DecryptIo

SpecIo == Init /\ [][NextIo]_vars

\* ------------------------------------------------------------ properties
Genuine == last.inProv.kind = "envelope"

Tampered == last.inProv.kind = "tampered"

SameKey == last.pass = last.inProv.k

SameAad == last.aad = last.inProv.a

EffectiveAad(a) == IF a.present THEN a.val ELSE <<>>

HasMagic(buffer) == SubSeq(buffer, 1, 8) = <<66, 86, 69, 78, 67, 48, 48, 49>>

\* C1: decrypt_file on an envelope that encrypt_file wrote for plaintext P
\* (the empty one included) with passphrase K and associated data A, called
\* with the same K and A, returns success and leaves exactly P at the
\* output path.
RoundTrip ==
  (last.op = "decrypt" /\ Genuine /\ SameKey /\ SameAad)
    => (last.err = Ok /\ fs[last.output] = File(last.inProv.p))

RoundTripWitness ==
  /\ last.op = "decrypt" /\ Genuine /\ SameKey /\ SameAad
  /\ last.aad.present /\ Len(last.inProv.p) > 0
  /\ last.err = Ok /\ fs[last.output] = File(last.inProv.p)

\* C2: a buffer shorter than 8+16+12 = 36 bytes is rejected with the
\* too-short error whatever its first bytes are, a buffer of at least 36
\* bytes whose first 8 bytes are not the magic tag is rejected with the
\* magic error, the two errors and the AEAD error are pairwise distinct, and
\* in both cases neither derive_key nor the AEAD open is called.
FormatValidation ==
  /\ (last.op = "decrypt" /\ last.read /\ Len(last.buffer) < 8 + 16 + 12)
       => (last.err = ErrTooShort /\ last.kdf = 0 /\ last.aead = 0)
  /\ (last.op = "decrypt" /\ last.read /\ Len(last.buffer) >= 8 + 16 + 12
        /\ ~HasMagic(last.buffer))
       => (last.err = ErrMagic /\ last.kdf = 0 /\ last.aead = 0)
  /\ ErrTooShort # ErrMagic /\ ErrTooShort # ErrAead /\ ErrMagic # ErrAead

FormatValidationWitness ==
  /\ last.op = "decrypt" /\ last.read
  /\ Len(last.buffer) = 8 + 16 + 12 /\ ~HasMagic(last.buffer)
  /\ last.err = ErrMagic /\ last.kdf = 0

\* C3 as stated: decrypting an envelope with the right passphrase and an
\* associated-data argument that differs in any way from the one used to
\* encrypt (absent against present-and-empty included) fails with the AEAD
\* error.
AadBindingStrict ==
  (last.op = "decrypt" /\ Genuine /\ SameKey /\ last.aad # last.inProv.a)
    => last.err = ErrAead

\* C3 amended: with the right passphrase, decryption fails with the AEAD
\* error whenever the associated-data bytes differ, an absent argument
\* counting as the empty string; when the bytes are equal (absent against
\* present-and-empty included) it succeeds and writes P.
AadBinding ==
  (last.op = "decrypt" /\ Genuine /\ SameKey)
    => IF EffectiveAad(last.aad) # EffectiveAad(last.inProv.a)
       THEN last.err = ErrAead /\ last.outKept
       ELSE last.err = Ok /\ fs[last.output] = File(last.inProv.p)

AadBindingWitness ==
  /\ last.op = "decrypt" /\ Genuine /\ SameKey
  /\ last.inProv.a = Some(<<109>>) /\ ~last.aad.present
  /\ last.err = ErrAead

\* C4: decrypt_file on an envelope with one flipped bit at or after offset
\* 36, called with the passphrase and associated data of the encryption,
\* fails with the AEAD error and writes nothing to the output path.
TamperDetection ==
  (last.op = "decrypt" /\ Tampered /\ SameKey /\ SameAad)
    => (last.err = ErrAead /\ last.wrote = "none" /\ last.outKept)

TamperDetectionWitness ==
  /\ last.op = "decrypt" /\ Tampered /\ SameKey /\ SameAad
  /\ Len(last.inProv.p) > 0 /\ last.inProv.pos = 37
  /\ last.err = ErrAead

\* C5: decrypting an envelope with another passphrase and the same
\* associated data fails with the AEAD error, and every run in which the
\* AEAD open fails returns that one error value, whether the passphrase, the
\* associated data or the envelope bytes are the cause.
UniformAuthFailure ==
  /\ (last.op = "decrypt" /\ Genuine /\ ~SameKey /\ SameAad)
       => last.err = ErrAead
  /\ (last.op = "decrypt" /\ last.aead = 1 /\ ~last.opened)
       => last.err = ErrAead
  /\ (last.op = "decrypt" /\ last.inProv.kind # "none"
        /\ (~SameKey \/ Tampered
              \/ EffectiveAad(last.aad) # EffectiveAad(last.inProv.a)))
       => (last.aead = 1 /\ ~last.opened)

UniformAuthFailureWitness ==
  /\ last.op = "decrypt" /\ Genuine /\ ~SameKey /\ SameAad
  /\ last.aead = 1 /\ last.err = ErrAead

\* C6: every call either returns success with the complete envelope or
\* plaintext at the output path, or returns an error and leaves the output
\* path as it was; decrypt_file touches the output path only after the AEAD
\* open succeeded.
AllOrNothing ==
  /\ last.op # "none"
       => \/ last.err = Ok /\ fs[last.output] = File(last.full)
          \/ last.err # Ok /\ last.outKept
  /\ (last.op = "decrypt" /\ ~last.opened) => last.outKept

\* C7: when encrypt_file or decrypt_file returns, no derived key and no
\* plaintext buffer of the call is left without having been zeroized.
WipedOnReturn == last.op # "none" => last.unwiped = {}

\* C8 as stated: two envelopes written by encrypt_file for the same
\* plaintext, passphrase and associated data are different byte sequences.
SameInputs ==
  /\ prov["enc"].kind = "envelope" /\ prov["enc2"].kind = "envelope"
  /\ prov["enc"].p = prov["enc2"].p
  /\ prov["enc"].k = prov["enc2"].k
  /\ prov["enc"].a = prov["enc2"].a

AlwaysDifferentEnvelopes == SameInputs => fs["enc"] # fs["enc2"]

\* C8 amended: two envelopes written for the same plaintext, passphrase and
\* associated data differ exactly when the random salt or the random nonce
\* of the two calls differ (they are equal only if the generator returned
\* the same salt and the same nonce twice), and each of them decrypts back
\* to the plaintext under that passphrase and associated data.
DifferentUnlessSameDraw ==
  /\ SameInputs
       => (fs["enc"] = fs["enc2"]
             <=> (prov["enc"].salt = prov["enc2"].salt
                    /\ prov["enc"].nonce = prov["enc2"].nonce))
  /\ \A x \in {"enc", "enc2"} :
       prov[x].kind = "envelope"
         => LET d == DecryptBytes(fs[x].bytes, prov[x].k, prov[x].a)
            IN  d.err = Ok /\ d.plaintext = prov[x].p
  /\ (last.op = "decrypt" /\ Genuine /\ SameKey)
       => (last.err = Ok /\ fs["dec"] = File(last.inProv.p))

DifferentUnlessSameDrawWitness ==
  /\ SameInputs
  /\ prov["enc"].salt = prov["enc2"].salt
  /\ prov["enc"].nonce # prov["enc2"].nonce
  /\ fs["enc"] # fs["enc2"]
  /\ last.op = "decrypt" /\ last.input = "enc2" /\ last.err = Ok

\* C9: an envelope written for a plaintext of n bytes is the 8-byte magic
\* tag, the 16-byte salt given to derive_key, the 12-byte nonce given to the
\* AEAD seal and the AEAD output, in that order and nothing else, 36 + n + 16
\* bytes in all; decrypt_file takes the salt, the nonce and the ciphertext
\* with tag from offsets 8..24, 24..36 and 36..end, so that it hands to
\* derive_key and to the AEAD open what encrypt_file used.
EnvelopeLayout ==
  /\ (last.op = "encrypt" /\ last.err = Ok)
       => /\ fs[last.output].bytes
               = <<66, 86, 69, 78, 67, 48, 48, 49>> \o last.salt \o last.nonce
                   \o last.sealed
          /\ Len(last.salt) = 16 /\ Len(last.nonce) = 12
          /\ Len(last.sealed) = Len(last.buffer) + 16
          /\ Len(fs[last.output].bytes) = 36 + Len(last.buffer) + 16
  /\ (last.op = "decrypt" /\ last.kdf = 1)
       => /\ last.salt = SubSeq(last.buffer, 9, 24)
          /\ last.nonce = SubSeq(last.buffer, 25, 36)
          /\ last.sealed = SubSeq(last.buffer, 37, Len(last.buffer))
  /\ (last.op = "decrypt" /\ Genuine)
       => /\ last.salt = last.inProv.salt
          /\ last.nonce = last.inProv.nonce
          /\ last.sealed = last.inProv.sealed

EnvelopeLayoutWitness ==
  /\ last.op = "decrypt" /\ Genuine /\ last.kdf = 1
  /\ Len(last.inProv.p) > 0
  /\ Len(last.buffer) = 36 + Len(last.inProv.p) + 16

\* C10: a buffer of at least 36 bytes that starts with the magic tag and has
\* fewer than 16 bytes after offset 36 (none at all included) passes the
\* format checks, is split into a 16-byte salt, a 12-byte nonce and the
\* remainder, and is rejected by the AEAD open with the AEAD error, not the
\* too-short error; no buffer shorter than 36 + 16 bytes decrypts.
ShortBody ==
  /\ (last.op = "decrypt" /\ last.read /\ Len(last.buffer) >= 36
        /\ HasMagic(last.buffer) /\ Len(last.buffer) < 36 + 16)
       => /\ last.err = ErrAead /\ last.kdf = 1 /\ last.aead = 1
          /\ Len(last.salt) = 16 /\ Len(last.nonce) = 12
          /\ Len(last.sealed) = Len(last.buffer) - 36
          /\ last.outKept
  /\ (last.op = "decrypt" /\ last.err = Ok) => Len(last.buffer) >= 36 + 16

ShortBodyWitness ==
  /\ last.op = "decrypt" /\ last.read /\ Len(last.buffer) = 36
  /\ HasMagic(last.buffer) /\ last.err = ErrAead /\ last.aead = 1
====
